---- MODULE Spec2Model ----
(***************************************************************************)
(* A model of the flakestry.dev Rust backend (backend-rs): the search /    *)
(* list handler get_flake in its two versions (src/main.rs and             *)
(* src/api/flake.rs), the repository detail handler read_repo, the publish *)
(* stub, the relational accessors, the search accessor and the index       *)
(* initialisation done by main at process startup.                         *)
(*                                                                         *)
(* Rust Strings whose content matters (document ids, version strings) are  *)
(* sequences of one-character strings; names that are only compared for    *)
(* equality (owner, repository, query) are TLA+ strings.  f64 scores are   *)
(* integers: a JSON number is never NaN, so the scores the code reads are  *)
(* totally ordered.                                                        *)
(***************************************************************************)
EXTENDS Integers, Sequences, FiniteSets, TLC

VARIABLES
    store,        \* the relational store: owners, repos and releases tables
    indexExists,  \* whether the search engine holds the "flakes" index
    indexCreated, \* how many times the engine has created the "flakes" index
    mainpc,       \* position of each server process in main
    mainres,      \* what create_flake_index returned to each process
    pc,           \* position of each request in its handler
    req,          \* the request being handled
    sres,         \* what the search step gave the handler (its hits map)
    calls,        \* the accessor calls the handler has made, in order
    resp,         \* the response the request ended with
    published     \* the payloads sent to POST /api/publish and answered

vars == <<store, indexExists, indexCreated, mainpc, mainres,
          pc, req, sres, calls, resp, published>>

-----------------------------------------------------------------------------
(* Bounds of the model *)

\* server processes started against the same search engine
NumProcs == 2
\* rows the big store holds beyond the LIMIT of the recent listing
ExtraRows == 1
\* documents matching the query "many" beyond the size of a search page
ExtraDocs == 1

\* LIMIT 100 of the recent listing
RecentLimit == 100
\* .size(10) of the search request
SearchSize == 10

\* the request slots: one request is in flight at a time
Reqs == {1}
Procs == 1..NumProcs

-----------------------------------------------------------------------------
(* Option values *)

None == [some |-> FALSE, v |-> 0]
Some(x) == [some |-> TRUE, v |-> x]

Min(a, b) == IF a <= b THEN a ELSE b

-----------------------------------------------------------------------------
(* Strings: bytes, ordering, integer parsing *)

DigitChars == {"0", "1", "2", "3", "4", "5", "6", "7", "8", "9"}

DigitValue(c) ==
    CASE c = "0" -> 0 [] c = "1" -> 1 [] c = "2" -> 2 [] c = "3" -> 3
      [] c = "4" -> 4 [] c = "5" -> 5 [] c = "6" -> 6 [] c = "7" -> 7
      [] c = "8" -> 8 [] c = "9" -> 9

\* the UTF-8 byte of a character
ByteOf(c) ==
    CASE c \in DigitChars -> 48 + DigitValue(c)
      [] c = "+" -> 43
      [] c = "-" -> 45
      [] c = "." -> 46
      [] c = "x" -> 120

\* Ord for String: byte-wise lexicographic; -1 Less, 0 Equal, 1 Greater
str_cmp(a, b) ==
    LET n == Min(Len(a), Len(b))
        diff == {i \in 1..n : a[i] # b[i]}
    IN  IF diff = {}
        THEN IF Len(a) < Len(b) THEN -1 ELSE IF Len(a) > Len(b) THEN 1 ELSE 0
        ELSE LET i == CHOOSE j \in diff : \A k \in diff : j <= k
             IN  IF ByteOf(a[i]) < ByteOf(b[i]) THEN -1 ELSE 1

\* i32::MAX
I32_MAX == 2147483647

\* str::parse::<i32>(): an optional sign, then decimal digits, accumulated
\* with checked arithmetic; None stands for Err(ParseIntError)
parse_i32(s) ==
    LET signed == Len(s) > 0 /\ s[1] \in {"+", "-"}
        neg == Len(s) > 0 /\ s[1] = "-"
        ds == IF signed THEN SubSeq(s, 2, Len(s)) ELSE s
        lim == I32_MAX \div 10
        last == IF neg THEN (I32_MAX % 10) + 1 ELSE I32_MAX % 10
        \* acc[i]: magnitude after i digits, or -1 once a digit overflowed
        acc[i \in 0..Len(ds)] ==
            IF i = 0 THEN 0
            ELSE LET p == acc[i - 1]
                     d == DigitValue(ds[i])
                 IN  IF p < 0 \/ p > lim \/ (p = lim /\ d > last)
                     THEN -1
                     ELSE IF p = lim /\ d = last /\ neg
                          THEN -2      \* exactly i32::MIN
                          ELSE p * 10 + d
    IN  IF Len(ds) = 0 THEN None
        ELSE IF \E i \in 1..Len(ds) : ds[i] \notin DigitChars THEN None
        ELSE IF \E i \in 0..Len(ds) : acc[i] = -1 THEN None
        ELSE IF \E i \in 0..(Len(ds) - 1) : acc[i] = -2 THEN None
        ELSE IF acc[Len(ds)] = -2 THEN Some(-I32_MAX - 1)
        ELSE Some(IF neg THEN -acc[Len(ds)] ELSE acc[Len(ds)])

\* Display for i32 (format!("{id}")): "-" for a negative value, then the
\* decimal digits without leading zeros
fmt_i32(n) ==
    LET m == IF n < 0 THEN -n ELSE n
        DigitOf(d) == CHOOSE c \in DigitChars : DigitValue(c) = d
        digits[k \in Nat] ==
            IF k < 10 THEN <<DigitOf(k)>> ELSE digits[k \div 10] \o <<DigitOf(k % 10)>>
    IN  IF n < 0 THEN <<"-">> \o digits[m] ELSE digits[m]

-----------------------------------------------------------------------------
(* Vec helpers *)

\* slice::sort_by: a stable sort; cmp(a, b) is -1, 0 or 1
sort_by(s, cmp(_, _)) ==
    LET ins(t, x) ==
            LET p == Cardinality({j \in 1..Len(t) : cmp(t[j], x) <= 0})
            IN  SubSeq(t, 1, p) \o <<x>> \o SubSeq(t, p + 1, Len(t))
        f[i \in 0..Len(s)] == IF i = 0 THEN <<>> ELSE ins(f[i - 1], s[i])
    IN  f[Len(s)]

\* slice::reverse
reverse(s) == [i \in 1..Len(s) |-> s[Len(s) + 1 - i]]

\* Ord for i32 (and for f64 values that are not NaN)
int_cmp(a, b) == IF a < b THEN -1 ELSE IF a > b THEN 1 ELSE 0

\* every order in which a query without ORDER BY may return a set of rows
Perms(S) ==
    {f \in [1..Cardinality(S) -> S] : \A i, j \in 1..Cardinality(S) : i # j => f[i] # f[j]}

SeqToSet(s) == {s[i] : i \in 1..Len(s)}

-----------------------------------------------------------------------------
(* serde_json::Value, as far as the handlers look at it *)

JNull == [t |-> "null", s |-> <<>>, n |-> 0]
JStr(str) == [t |-> "str", s |-> str, n |-> 0]
JNum(num) == [t |-> "num", s |-> <<>>, n |-> num]

\* Value::as_str
as_str(v) == IF v.t = "str" THEN Some(v.s) ELSE None
\* Value::as_f64
as_f64(v) == IF v.t = "num" THEN Some(v.n) ELSE None

\* HashMap::new()
EmptyMap == [k \in {} |-> 0]
\* HashMap::insert: a later value for the same key replaces the earlier one
insert(m, k, x) == [j \in (DOMAIN m) \cup {k} |-> IF j = k THEN x ELSE m[j]]

-----------------------------------------------------------------------------
(* The relational store *)

\* a NULL column value
DbNull == "<NULL>"

EmptyStore == [owners |-> {}, repos |-> {}, releases |-> {}]

SmallStore ==
    [owners |-> {[id |-> 1, name |-> "acme"]},
     repos |-> {[id |-> 1, owner_id |-> 1, name |-> "widget"],
                [id |-> 2, owner_id |-> 1, name |-> "gadget"]},
     releases |->
        {[id |-> 1, repo_id |-> 1, version |-> <<"1", "0", ".", "0", ".", "0">>,
          description |-> DbNull, created_at |-> 1, commit |-> "c1", readme |-> "r1"],
         [id |-> 2, repo_id |-> 1, version |-> <<"2", ".", "0", ".", "0">>,
          description |-> "two", created_at |-> 3, commit |-> "c2", readme |-> "r2"],
         [id |-> 3, repo_id |-> 1, version |-> <<"1", ".", "2", ".", "0">>,
          description |-> "three", created_at |-> 3, commit |-> "c3", readme |-> "r3"]}]

\* SmallStore and a repository "bulk" with more releases than the recent
\* listing returns, each newer than those of SmallStore
BigStore ==
    [owners |-> SmallStore.owners,
     repos |-> SmallStore.repos \cup {[id |-> 3, owner_id |-> 1, name |-> "bulk"]},
     releases |-> SmallStore.releases \cup
        {[id |-> 1000 + i, repo_id |-> 3, version |-> fmt_i32(i) \o <<".", "0">>,
          description |-> DbNull, created_at |-> 10 + i, commit |-> "c", readme |-> "r"]
            : i \in 1..(RecentLimit + ExtraRows)}]

Stores == {EmptyStore, SmallStore, BigStore}

\* FROM release INNER JOIN githubrepo ON githubrepo.id = release.repo_id
\*              INNER JOIN githubowner ON githubowner.id = githubrepo.owner_id
ReleaseJoin(st) ==
    {[release |-> r, githubrepo |-> p, githubowner |-> o] :
        <<r, p, o>> \in {t \in st.releases \X st.repos \X st.owners :
                            t[2].id = t[1].repo_id /\ t[3].id = t[2].owner_id}}

\* FromRow for FlakeReleaseCompact: a NULL description becomes ""
FlakeReleaseCompact_from_row(j) ==
    [id |-> j.release.id, owner |-> j.githubowner.name, repo |-> j.githubrepo.name,
     version |-> j.release.version,
     description |-> IF j.release.description = DbNull THEN "" ELSE j.release.description,
     created_at |-> j.release.created_at]

\* derived FromRow for sql::FlakeRelease: description is Option<String>
sql_FlakeRelease_from_row(j) ==
    [id |-> j.release.id, owner |-> j.githubowner.name, repo |-> j.githubrepo.name,
     version |-> j.release.version, description |-> j.release.description,
     created_at |-> j.release.created_at]

\* FromRow for api::flake::FlakeRelease: the extended shape
FlakeRelease_from_row(j) ==
    [id |-> j.release.id, owner |-> j.githubowner.name, repo |-> j.githubrepo.name,
     version |-> j.release.version,
     description |-> IF j.release.description = DbNull THEN "" ELSE j.release.description,
     created_at |-> j.release.created_at,
     commit |-> j.release.commit, readme |-> j.release.readme]

\* Serialize for api::flake::FlakeRelease: id is #[serde(skip_serializing)]
FlakeRelease_serialize(r) ==
    [owner |-> r.owner, repo |-> r.repo, version |-> r.version,
     description |-> r.description, created_at |-> r.created_at,
     commit |-> r.commit, readme |-> r.readme]

\* every sequence of the elements of S by descending key: elements with the
\* same key come in any order
OrderDesc(S, key(_)) ==
    LET tied == {x \in S : \E y \in S : y # x /\ key(y) = key(x)}
        At(tb, x) == CHOOSE i \in 1..Len(tb) : tb[i] = x
        Pos(tb, x) ==
            1 + Cardinality({y \in S : key(y) > key(x)})
              + (IF x \in tied
                 THEN Cardinality({y \in tied : key(y) = key(x) /\ At(tb, y) < At(tb, x)})
                 ELSE 0)
    IN  {[i \in 1..Cardinality(S) |-> CHOOSE x \in S : Pos(tb, x) = i] : tb \in Perms(tied)}

\* ORDER BY release.created_at DESC over joined rows
OrderByCreatedAtDesc(S) == OrderDesc(S, LAMBDA x : x.release.created_at)

\* LIMIT n
Limit(s, n) == SubSeq(s, 1, Min(Len(s), n))

\* the comma-separated literals of an IN (...) list, as the store reads them
RECURSIVE InList(_)
InList(text) ==
    IF \E i \in 1..Len(text) : text[i] = ","
    THEN LET i == CHOOSE k \in 1..Len(text) :
                     text[k] = "," /\ \A m \in 1..(k - 1) : text[m] # ","
         IN  {parse_i32(SubSeq(text, 1, i - 1)).v} \cup InList(SubSeq(text, i + 1, Len(text)))
    ELSE {parse_i32(text).v}

\* The results the store may give for the query of get_flakes_by_ids with the
\* given IN list: the matching joined rows in any order.  "WHERE release.id
\* IN ()" is a syntax error.
StoreFetchByIds(st, param_string) ==
    IF param_string = <<>>
    THEN {[tag |-> "Err", rows |-> <<>>]}
    ELSE {[tag |-> "Ok", rows |-> p] :
            p \in Perms({j \in ReleaseJoin(st) : j.release.id \in InList(param_string)})}

\* the query of get_flakes without its LIMIT
StoreFetchRecent_unlimited(st) ==
    {[tag |-> "Ok", rows |-> s] : s \in OrderByCreatedAtDesc(ReleaseJoin(st))}

\* ... ORDER BY release.created_at DESC LIMIT 100 (the query of get_flakes)
StoreFetchRecent(st) ==
    {[tag |-> "Ok", rows |-> Limit(s, RecentLimit)] : s \in OrderByCreatedAtDesc(ReleaseJoin(st))}

\* SELECT githubrepo.id ... WHERE githubrepo.name = $1 AND githubowner.name = $2
\* LIMIT 1, with $1 and $2 as bound by get_repo_id; fetch_optional
StoreFetchRepoId(st, bind1, bind2) ==
    LET found == {p \in st.repos : /\ p.name = bind1
                                   /\ \E o \in st.owners : o.id = p.owner_id /\ o.name = bind2}
    IN  IF found = {} THEN {None} ELSE {Some(p.id) : p \in found}

\* ... WHERE release.repo_id = $1 (the query of get_repo_releases)
StoreFetchRepoReleases(st, bind1) ==
    {[tag |-> "Ok", rows |-> p] :
        p \in Perms({j \in ReleaseJoin(st) : j.release.repo_id = bind1})}

-----------------------------------------------------------------------------
(* The search engine *)

Queries == {"nix", "zzz", "many", "bad_id", "big_id", "no_id", "no_score"}

Hit(id, score) == [_id |-> id, _score |-> score]

\* The documents of the "flakes" index that match query q, each with the
\* _id and _score the engine reports for it.
\*   nix      four documents, two of them with the same score, one (9) that no
\*            store holds
\*   zzz      nothing
\*   many     more documents than a page holds; the lowest-scoring one is
\*            release 3
\*   bad_id   a well-formed hit and one whose _id is not a number
\*   big_id   a hit whose _id does not fit an i32
\*   no_id    a hit without _id
\*   no_score a well-formed hit and one whose _score is null
Matches(q) ==
    CASE q = "nix" -> {Hit(JStr(<<"1">>), JNum(10)), Hit(JStr(<<"2">>), JNum(30)),
                       Hit(JStr(<<"3">>), JNum(30)), Hit(JStr(<<"9">>), JNum(20))}
      [] q = "zzz" -> {}
      [] q = "many" ->
            {Hit(JStr(fmt_i32(IF i <= 2 THEN i ELSE 20 + i)), JNum(1000 - i))
                : i \in 1..(SearchSize + ExtraDocs - 1)}
            \cup {Hit(JStr(<<"3">>), JNum(1))}
      [] q = "bad_id" -> {Hit(JStr(<<"1">>), JNum(20)), Hit(JStr(<<"x", "7">>), JNum(10))}
      [] q = "big_id" ->
            {Hit(JStr(<<"2", "1", "4", "7", "4", "8", "3", "6", "4", "8">>), JNum(10))}
      [] q = "no_id" -> {Hit(JNull, JNum(10))}
      [] q = "no_score" -> {Hit(JStr(<<"1">>), JNum(20)), Hit(JStr(<<"2">>), JNull)}

\* the relevance by which the engine ranks a hit (a hit without score last)
Rank(h) == IF h._score.t = "num" THEN h._score.n ELSE 0

\* The JSON bodies the engine may answer to the search request for q with the
\* page size `size`: the best `size` matches by descending score, or, when the
\* index does not exist, an error object that holds no hits array.
opensearch_search(exists, q, size) ==
    IF ~exists
    THEN {[hasHits |-> FALSE, hits |-> <<>>]}
    ELSE {[hasHits |-> TRUE, hits |-> Limit(s, size)] : s \in OrderDesc(Matches(q), Rank)}

\* What send().await and json::<Value>().await may give: the engine is
\* unreachable, its body is not JSON, or a JSON body.
SearchOutcomes(exists, q, size) ==
    {[tag |-> "SendErr", res |-> [hasHits |-> FALSE, hits |-> <<>>]],
     [tag |-> "DecodeErr", res |-> [hasHits |-> FALSE, hits |-> <<>>]]}
    \cup {[tag |-> "Json", res |-> b] : b \in opensearch_search(exists, q, size)}

\* the loop over the hit array: the map of the hits read so far, until a hit is
\* malformed; fail names what to do then
collect_hits(arr) ==
    LET step(acc, hit) ==
            IF acc.tag # "Ok" THEN acc
            ELSE IF ~as_str(hit._id).some
                 THEN [tag |-> "Fail", hits |-> EmptyMap,
                       err |-> "failed to read id as string from open search hit"]
            ELSE IF ~parse_i32(as_str(hit._id).v).some
                 THEN [tag |-> "Fail", hits |-> EmptyMap,
                       err |-> "failed to parse id from open search hit"]
            ELSE IF ~as_f64(hit._score).some
                 THEN [tag |-> "Fail", hits |-> EmptyMap,
                       err |-> "failed to parse score from open search hit"]
            ELSE [tag |-> "Ok", err |-> "",
                  hits |-> insert(acc.hits, parse_i32(as_str(hit._id).v).v,
                                  as_f64(hit._score).v)]
        f[i \in 0..Len(arr)] ==
            IF i = 0 THEN [tag |-> "Ok", hits |-> EmptyMap, err |-> ""]
            ELSE step(f[i - 1], arr[i])
    IN  f[Len(arr)]

\* api::flake::search_flakes: every failure is an Err(AppError)
search_flakes(o) ==
    IF o.tag = "SendErr"
    THEN [tag |-> "Err", hits |-> EmptyMap, err |-> "Failed to send opensearch request"]
    ELSE IF o.tag = "DecodeErr"
    THEN [tag |-> "Err", hits |-> EmptyMap,
          err |-> "Failed to decode opensearch response as json"]
    ELSE IF ~o.res.hasHits
    THEN [tag |-> "Err", hits |-> EmptyMap,
          err |-> "failed to extract hits from open search response"]
    ELSE LET c == collect_hits(o.res.hits)
         IN  IF c.tag = "Ok" THEN c ELSE [c EXCEPT !.tag = "Err"]

\* search::search_flakes: the transport errors are returned with ?, the shape
\* of the body is read with unwrap(), which panics
search_search_flakes(o) ==
    IF o.tag \in {"SendErr", "DecodeErr"}
    THEN [tag |-> "Err", hits |-> EmptyMap, err |-> "opensearch::Error"]
    ELSE IF ~o.res.hasHits
    THEN [tag |-> "Panic", hits |-> EmptyMap, err |-> "called Option::unwrap() on a None value"]
    ELSE LET c == collect_hits(o.res.hits)
         IN  IF c.tag = "Ok" THEN c
             ELSE [tag |-> "Panic", hits |-> EmptyMap,
                   err |-> "called unwrap() on a None or Err value"]

-----------------------------------------------------------------------------
(* The relational accessors *)

\* hits.keys().collect(): the keys of the map as a Vec; the order of a
\* HashMap's keys is arbitrary and only decides the order of the literals in
\* the IN list, so the ascending one stands for all
keys(m) ==
    [i \in 1..Cardinality(DOMAIN m) |->
        CHOOSE k \in DOMAIN m : Cardinality({j \in DOMAIN m : j < k}) = i - 1]

\* the fold without its separator
param_string_unseparated(flake_ids) ==
    LET f[i \in 0..Len(flake_ids)] ==
            IF i = 0 THEN <<>> ELSE f[i - 1] \o fmt_i32(flake_ids[i])
    IN  f[Len(flake_ids)]

\* the fold that joins the identifiers with commas
param_string(flake_ids) ==
    LET f[i \in 0..Len(flake_ids)] ==
            IF i = 0 THEN <<>>
            ELSE f[i - 1] \o (IF f[i - 1] = <<>> THEN <<>> ELSE <<",">>)
                          \o fmt_i32(flake_ids[i])
    IN  f[Len(flake_ids)]

\* get_flakes_by_ids without the early return for an empty Vec
get_flakes_by_ids_unguarded(flake_ids) ==
    [query |-> TRUE, text |-> param_string(flake_ids)]

\* api::flake::get_flakes_by_ids up to its await: no query for an empty Vec,
\* else the IN list of the query it sends
get_flakes_by_ids(flake_ids) ==
    IF flake_ids = <<>>
    THEN [query |-> FALSE, text |-> <<>>]
    ELSE [query |-> TRUE, text |-> param_string(flake_ids)]

\* sql::get_flakes_by_ids up to its await
sql_get_flakes_by_ids(flake_ids) ==
    IF flake_ids = <<>>
    THEN [query |-> FALSE, text |-> <<>>]
    ELSE [query |-> TRUE, text |-> param_string(flake_ids)]

-----------------------------------------------------------------------------
(* Responses *)

NoQuery == [some |-> FALSE, v |-> ""]
SomeQuery(q) == [some |-> TRUE, v |-> q]

NoResponse ==
    [kind |-> "none", status |-> 0, releases |-> <<>>, count |-> 0,
     query |-> NoQuery, body |-> ""]

\* Ok(Json(GetFlakeResponse { releases, count, query }))
GetFlakeResponse(releases, query) ==
    [kind |-> "GetFlakeResponse", status |-> 200, releases |-> releases,
     count |-> Len(releases), query |-> query, body |-> ""]

\* (StatusCode::OK, Json(RepoResponse { releases }))
RepoResponse(releases) ==
    [kind |-> "RepoResponse", status |-> 200, releases |-> releases,
     count |-> 0, query |-> NoQuery, body |-> ""]

\* (StatusCode::NOT_FOUND, Json(NotFoundResponse::build()))
NotFoundResponse ==
    [kind |-> "NotFoundResponse", status |-> 404, releases |-> <<>>,
     count |-> 0, query |-> NoQuery, body |-> "{\"detail\":\"Not Found\"}"]

\* IntoResponse for main's AppError: 500 with the error's text
into_response(err) ==
    [kind |-> "AppError", status |-> 500, releases |-> <<>>,
     count |-> 0, query |-> NoQuery, body |-> err]

\* IntoResponse for common::AppError, the error type of api::flake: 500 with
\* a message describing the failure
common_into_response(err) ==
    [kind |-> "AppError", status |-> 500, releases |-> <<>>,
     count |-> 0, query |-> NoQuery, body |-> err]

\* the fixed body of post_publish
PublishResponse ==
    [kind |-> "Publish", status |-> 200, releases |-> <<>>,
     count |-> 0, query |-> NoQuery, body |-> "Publish"]

\* the router's answer to a request no route matches
FallbackResponse ==
    [kind |-> "Fallback", status |-> 404, releases |-> <<>>,
     count |-> 0, query |-> NoQuery, body |-> ""]

\* a handler that panicked: the connection ends without a response
Aborted ==
    [kind |-> "Aborted", status |-> 0, releases |-> <<>>,
     count |-> 0, query |-> NoQuery, body |-> ""]

-----------------------------------------------------------------------------
(* Requests and routing *)

NoVersion == <<>>

GetFlakeRequests ==
    {[method |-> "GET", route |-> "/api/flake", q |-> qq,
      owner |-> "", repo |-> "", version |-> NoVersion]
        : qq \in {NoQuery} \cup {SomeQuery(q) : q \in Queries}}

ReadRepoRequests ==
    {[method |-> "GET", route |-> "/api/flake/:owner/:repo", q |-> NoQuery,
      owner |-> t[1], repo |-> t[2], version |-> NoVersion]
        : t \in {<<"acme", "widget">>, <<"acme", "gadget">>,
                 <<"acme", "nope">>, <<"widget", "acme">>}}

PublishRequests ==
    {[method |-> "POST", route |-> "/api/publish", q |-> NoQuery,
      owner |-> "acme", repo |-> "widget", version |-> <<"1", ".", "2", ".", "0">>]}

Requests == GetFlakeRequests \cup ReadRepoRequests \cup PublishRequests

\* the Router built by main's app(): two routes under /api
app(method, route) ==
    IF method = "GET" /\ route = "/api/flake" THEN "main_get_flake"
    ELSE IF method = "POST" /\ route = "/api/publish" THEN "post_publish"
    ELSE "fallback"

\* the routes of the HTTP surface served by the handlers of api::flake
api_app(method, route) ==
    IF method = "GET" /\ route = "/api/flake" THEN "get_flake"
    ELSE IF method = "GET" /\ route = "/api/flake/:owner/:repo" THEN "read_repo"
    ELSE IF method = "POST" /\ route = "/api/publish" THEN "post_publish"
    ELSE "fallback"

Routers == {"main", "api"}

Route(router, i) ==
    IF router = "main" THEN app(i.method, i.route) ELSE api_app(i.method, i.route)

-----------------------------------------------------------------------------
(* The pure steps of the handlers *)

\* Ord for FlakeReleaseCompact: by id
FlakeReleaseCompact_cmp(a, b) == int_cmp(a.id, b.id)

\* api::flake::get_flake, after hydration: releases.sort() unless empty
get_flake_sort(releases, h) ==
    IF releases # <<>> THEN sort_by(releases, FlakeReleaseCompact_cmp) ELSE releases

\* main's get_flake, after hydration:
\* releases.sort_by(|a, b| hits[&b.id].partial_cmp(&hits[&a.id]).unwrap())
main_get_flake_sort(releases, h) ==
    IF releases # <<>>
    THEN sort_by(releases, LAMBDA a, b : int_cmp(h[b.id], h[a.id]))
    ELSE releases

\* the dot-separated parts of a version string
RECURSIVE Split(_)
Split(text) ==
    IF \E i \in 1..Len(text) : text[i] = "."
    THEN LET i == CHOOSE k \in 1..Len(text) :
                     text[k] = "." /\ \A m \in 1..(k - 1) : text[m] # "."
         IN  <<SubSeq(text, 1, i - 1)>> \o Split(SubSeq(text, i + 1, Len(text)))
    ELSE <<text>>

\* a semantic-version comparison: part by part, as numbers
semver_cmp(a, b) ==
    LET pa == Split(a)
        pb == Split(b)
        n == Min(Len(pa), Len(pb))
        diff == {i \in 1..n : parse_i32(pa[i]).v # parse_i32(pb[i]).v}
    IN  IF diff = {} THEN int_cmp(Len(pa), Len(pb))
        ELSE LET i == CHOOSE j \in diff : \A k \in diff : j <= k
             IN  int_cmp(parse_i32(pa[i]).v, parse_i32(pb[i]).v)

\* read_repo sorting by semantic version instead of by string
read_repo_sort_semver(releases) ==
    IF releases # <<>>
    THEN reverse(sort_by(releases, LAMBDA a, b : semver_cmp(a.version, b.version)))
    ELSE releases

\* read_repo: releases.sort_by(|a, b| a.version.cmp(&b.version)) and
\* releases.reverse(), unless empty
read_repo_sort(releases) ==
    IF releases # <<>>
    THEN reverse(sort_by(releases, LAMBDA a, b : str_cmp(a.version, b.version)))
    ELSE releases

\* get_repo_id with the two binds in the order of its parameters
get_repo_id_binds_swapped(owner, repo) == <<owner, repo>>

\* get_repo_id: .bind(&repo).bind(&owner): $1 is the repository name, $2 the
\* owner name
get_repo_id_binds(owner, repo) == <<repo, owner>>

\* An accessor call of a handler: the accessor, its argument, the external
\* round trip it makes ("opensearch", "postgres" or "none") and how it
\* returned ("pending", "Ok", "Err" or "Panic")
Call(op, arg, io, ret) == [op |-> op, arg |-> arg, io |-> io, ret |-> ret]

Last(s) == s[Len(s)]

Returned(cs, ret) == [cs EXCEPT ![Len(cs)].ret = ret]

\* the search request built by api::flake::search_flakes
search_request(q) == [index |-> "flakes", size |-> SearchSize, query |-> q]

\* the search request built by search::search_flakes
search_search_request(q) == [index |-> "flakes", size |-> SearchSize, query |-> q]

\* a connectivity or execution fault of the store
StoreErr == [tag |-> "Err", rows |-> <<>>]

MapSeq(s, f(_)) == [i \in 1..Len(s) |-> f(s[i])]

-----------------------------------------------------------------------------
(* Initial states *)

NoRequest ==
    [router |-> "", method |-> "", route |-> "", q |-> NoQuery, owner |-> "",
     repo |-> "", version |-> NoVersion, handler |-> "", seen |-> {}]

NoSearch ==
    [tag |-> "none", hits |-> EmptyMap, err |-> "",
     raw |-> [tag |-> "none", res |-> [hasHits |-> FALSE, hits |-> <<>>]]]

NoStartup == [get |-> "none", create |-> "none", result |-> "none"]

InitRequests ==
    /\ pc = [r \in Reqs |-> "idle"]
    /\ req = [r \in Reqs |-> NoRequest]
    /\ sres = [r \in Reqs |-> NoSearch]
    /\ calls = [r \in Reqs |-> <<>>]
    /\ resp = [r \in Reqs |-> NoResponse]
    /\ published = {}

\* The servers are up: every process has left create_flake_index, either
\* having seen the index or having failed to reach the engine.
Init ==
    /\ store \in Stores
    /\ indexExists \in BOOLEAN
    /\ indexCreated = 0
    /\ mainpc = [p \in Procs |-> "serving"]
    /\ mainres = [p \in Procs |->
                    IF indexExists THEN [get |-> "200", create |-> "none", result |-> "Ok"]
                    ELSE [get |-> "err", create |-> "none", result |-> "Err"]]
    /\ InitRequests

\* The processes are about to call create_flake_index.
InitStartup ==
    /\ store \in Stores
    /\ indexExists \in BOOLEAN
    /\ indexCreated = 0
    /\ mainpc = [p \in Procs |-> "start"]
    /\ mainres = [p \in Procs |-> NoStartup]
    /\ InitRequests

-----------------------------------------------------------------------------
(* Requests: arrival and routing *)

world == <<store, indexExists, indexCreated, mainpc, mainres>>

Finish(r, response) ==
    /\ resp' = [resp EXCEPT ![r] = response]
    /\ pc' = [pc EXCEPT ![r] = "done"]

Continue(r, next) ==
    /\ pc' = [pc EXCEPT ![r] = next]
    /\ UNCHANGED resp

\* a request arrives at a serving process and is routed to its handler
Request(r) ==
    /\ pc[r] \in {"idle", "done"}
    /\ \E p \in Procs : mainpc[p] = "serving"
    /\ \E router \in Routers, i \in Requests :
         req' = [req EXCEPT ![r] =
                    [router |-> router, method |-> i.method, route |-> i.route,
                     q |-> i.q, owner |-> i.owner, repo |-> i.repo,
                     version |-> i.version, handler |-> Route(router, i),
                     seen |-> published]]
    /\ pc' = [pc EXCEPT ![r] = "routed"]
    /\ sres' = [sres EXCEPT ![r] = NoSearch]
    /\ calls' = [calls EXCEPT ![r] = <<>>]
    /\ resp' = [resp EXCEPT ![r] = NoResponse]
    /\ UNCHANGED <<world, published>>

\* no route matches
fallback(r) ==
    /\ pc[r] = "routed" /\ req[r].handler = "fallback"
    /\ Finish(r, FallbackResponse)
    /\ UNCHANGED <<world, req, sres, calls, published>>

\* post_publish: the fixed body; nothing is stored
post_publish(r) ==
    /\ pc[r] = "routed" /\ req[r].handler = "post_publish"
    /\ Finish(r, PublishResponse)
    /\ published' = published \cup
            {[owner |-> req[r].owner, repo |-> req[r].repo, version |-> req[r].version]}
    /\ UNCHANGED <<world, req, sres, calls>>

-----------------------------------------------------------------------------
(* api::flake::get_flake *)

\* up to the first await: the search call, or the recent listing
get_flake_begin(r) ==
    /\ pc[r] = "routed" /\ req[r].handler = "get_flake"
    /\ IF req[r].q.some
       THEN /\ calls' = [calls EXCEPT ![r] =
                    <<Call("search_flakes", search_request(req[r].q.v), "opensearch", "pending")>>]
            /\ Continue(r, "search")
       ELSE /\ calls' = [calls EXCEPT ![r] = <<Call("get_flakes", "", "postgres", "pending")>>]
            /\ Continue(r, "get_flakes")
    /\ UNCHANGED <<world, req, sres, published>>

\* search_flakes returns; get_flakes_by_ids is called and returns at once
\* for no identifiers, or sends its query
get_flake_searched(r) ==
    /\ pc[r] = "search" /\ req[r].handler = "get_flake"
    /\ \E o \in SearchOutcomes(indexExists, Last(calls[r]).arg.query, Last(calls[r]).arg.size) :
         LET sr == search_flakes(o)
             ids == keys(sr.hits)
             g == get_flakes_by_ids(ids)
         IN  /\ sres' = [sres EXCEPT ![r] =
                            [tag |-> sr.tag, hits |-> sr.hits, err |-> sr.err, raw |-> o]]
             /\ IF sr.tag = "Err"
                THEN /\ calls' = [calls EXCEPT ![r] = Returned(calls[r], "Err")]
                     /\ Finish(r, common_into_response(sr.err))
                ELSE IF g.query
                THEN /\ calls' = [calls EXCEPT ![r] = Returned(calls[r], "Ok") \o
                            <<Call("get_flakes_by_ids", [ids |-> ids, text |-> g.text],
                                   "postgres", "pending")>>]
                     /\ Continue(r, "by_ids")
                ELSE /\ calls' = [calls EXCEPT ![r] = Returned(calls[r], "Ok") \o
                            <<Call("get_flakes_by_ids", [ids |-> ids, text |-> g.text],
                                   "none", "Ok")>>]
                     /\ Finish(r, GetFlakeResponse(get_flake_sort(<<>>, sr.hits), req[r].q))
    /\ UNCHANGED <<world, req, published>>

\* get_flake_hydrated reading the statement from a buffer that the requests
\* share: the query sent is that of any request waiting for its hydration
get_flake_hydrated_shared(r) ==
    /\ pc[r] = "by_ids" /\ req[r].handler = "get_flake"
    /\ \E r2 \in DOMAIN pc :
         /\ pc[r2] = "by_ids"
         /\ \E out \in StoreFetchByIds(store, Last(calls[r2]).arg.text) \cup {StoreErr} :
              /\ calls' = [calls EXCEPT ![r] = Returned(calls[r], out.tag)]
              /\ IF out.tag = "Err"
                 THEN Finish(r, common_into_response("Failed to fetch flakes by id from database"))
                 ELSE Finish(r, GetFlakeResponse(
                                 get_flake_sort(MapSeq(out.rows, FlakeReleaseCompact_from_row),
                                                sres[r].hits),
                                 req[r].q))
    /\ UNCHANGED <<world, req, sres, published>>

\* the query of get_flakes_by_ids returns; the releases are sorted and sent
get_flake_hydrated(r) ==
    /\ pc[r] = "by_ids" /\ req[r].handler = "get_flake"
    /\ \E out \in StoreFetchByIds(store, Last(calls[r]).arg.text) \cup {StoreErr} :
         /\ calls' = [calls EXCEPT ![r] = Returned(calls[r], out.tag)]
         /\ IF out.tag = "Err"
            THEN Finish(r, common_into_response("Failed to fetch flakes by id from database"))
            ELSE Finish(r, GetFlakeResponse(
                            get_flake_sort(MapSeq(out.rows, FlakeReleaseCompact_from_row),
                                           sres[r].hits),
                            req[r].q))
    /\ UNCHANGED <<world, req, sres, published>>

\* the query of get_flakes returns; its rows are sent as they came
get_flake_listed(r) ==
    /\ pc[r] = "get_flakes" /\ req[r].handler = "get_flake"
    /\ \E out \in StoreFetchRecent(store) \cup {StoreErr} :
         /\ calls' = [calls EXCEPT ![r] = Returned(calls[r], out.tag)]
         /\ IF out.tag = "Err"
            THEN Finish(r, common_into_response("Failed to fetch flakes from database"))
            ELSE Finish(r, GetFlakeResponse(MapSeq(out.rows, FlakeReleaseCompact_from_row),
                                            req[r].q))
    /\ UNCHANGED <<world, req, sres, published>>

-----------------------------------------------------------------------------
(* get_flake of main.rs, with the accessors of search.rs and sql.rs *)

main_get_flake_begin(r) ==
    /\ pc[r] = "routed" /\ req[r].handler = "main_get_flake"
    /\ IF req[r].q.some
       THEN /\ calls' = [calls EXCEPT ![r] =
                    <<Call("search_flakes", search_search_request(req[r].q.v),
                           "opensearch", "pending")>>]
            /\ Continue(r, "search")
       ELSE /\ calls' = [calls EXCEPT ![r] = <<Call("get_flakes", "", "postgres", "pending")>>]
            /\ Continue(r, "get_flakes")
    /\ UNCHANGED <<world, req, sres, published>>

\* The search returns.  A transport error leaves with ?; a body of the wrong
\* shape panics in unwrap() (search.rs lines 58-63, and the same loop in
\* main.rs lines 125-130), which ends the request without a response.
main_get_flake_searched(r) ==
    /\ pc[r] = "search" /\ req[r].handler = "main_get_flake"
    /\ \E o \in SearchOutcomes(indexExists, Last(calls[r]).arg.query, Last(calls[r]).arg.size) :
         LET sr == search_search_flakes(o)
             ids == keys(sr.hits)
             g == sql_get_flakes_by_ids(ids)
         IN  /\ sres' = [sres EXCEPT ![r] =
                            [tag |-> sr.tag, hits |-> sr.hits, err |-> sr.err, raw |-> o]]
             /\ IF sr.tag = "Err"
                THEN /\ calls' = [calls EXCEPT ![r] = Returned(calls[r], "Err")]
                     /\ Finish(r, into_response(sr.err))
                ELSE IF sr.tag = "Panic"
                THEN /\ calls' = [calls EXCEPT ![r] = Returned(calls[r], "Panic")]
                     /\ Finish(r, Aborted)
                ELSE IF g.query
                THEN /\ calls' = [calls EXCEPT ![r] = Returned(calls[r], "Ok") \o
                            <<Call("get_flakes_by_ids", [ids |-> ids, text |-> g.text],
                                   "postgres", "pending")>>]
                     /\ Continue(r, "by_ids")
                ELSE /\ calls' = [calls EXCEPT ![r] = Returned(calls[r], "Ok") \o
                            <<Call("get_flakes_by_ids", [ids |-> ids, text |-> g.text],
                                   "none", "Ok")>>]
                     /\ Finish(r, GetFlakeResponse(main_get_flake_sort(<<>>, sr.hits),
                                                   req[r].q))
    /\ UNCHANGED <<world, req, published>>

main_get_flake_hydrated(r) ==
    /\ pc[r] = "by_ids" /\ req[r].handler = "main_get_flake"
    /\ \E out \in StoreFetchByIds(store, Last(calls[r]).arg.text) \cup {StoreErr} :
         /\ calls' = [calls EXCEPT ![r] = Returned(calls[r], out.tag)]
         /\ IF out.tag = "Err"
            THEN Finish(r, into_response("sqlx::Error"))
            ELSE Finish(r, GetFlakeResponse(
                            main_get_flake_sort(MapSeq(out.rows, sql_FlakeRelease_from_row),
                                                sres[r].hits),
                            req[r].q))
    /\ UNCHANGED <<world, req, sres, published>>

main_get_flake_listed(r) ==
    /\ pc[r] = "get_flakes" /\ req[r].handler = "main_get_flake"
    /\ \E out \in StoreFetchRecent(store) \cup {StoreErr} :
         /\ calls' = [calls EXCEPT ![r] = Returned(calls[r], out.tag)]
         /\ IF out.tag = "Err"
            THEN Finish(r, into_response("sqlx::Error"))
            ELSE Finish(r, GetFlakeResponse(MapSeq(out.rows, sql_FlakeRelease_from_row),
                                            req[r].q))
    /\ UNCHANGED <<world, req, sres, published>>

-----------------------------------------------------------------------------
(* api::flake::read_repo *)

\* up to the await in get_repo_id
read_repo_begin(r) ==
    /\ pc[r] = "routed" /\ req[r].handler = "read_repo"
    /\ calls' = [calls EXCEPT ![r] =
            <<Call("get_repo_id", get_repo_id_binds(req[r].owner, req[r].repo),
                   "postgres", "pending")>>]
    /\ Continue(r, "repo_id")
    /\ UNCHANGED <<world, req, sres, published>>

\* get_repo_id returns: an error, no row (404), or the identifier, for which
\* get_repo_releases sends its query
read_repo_resolved(r) ==
    /\ pc[r] = "repo_id" /\ req[r].handler = "read_repo"
    /\ \/ /\ calls' = [calls EXCEPT ![r] = Returned(calls[r], "Err")]
          /\ Finish(r, common_into_response("Failed to fetch repo id from database"))
       \/ \E repo_id \in StoreFetchRepoId(store, Last(calls[r]).arg[1], Last(calls[r]).arg[2]) :
            IF repo_id.some
            THEN /\ calls' = [calls EXCEPT ![r] = Returned(calls[r], "Ok") \o
                        <<Call("get_repo_releases", repo_id.v, "postgres", "pending")>>]
                 /\ Continue(r, "repo_releases")
            ELSE /\ calls' = [calls EXCEPT ![r] = Returned(calls[r], "Ok")]
                 /\ Finish(r, NotFoundResponse)
    /\ UNCHANGED <<world, req, sres, published>>

\* get_repo_releases returns; the releases are sorted by version and sent
read_repo_fetched(r) ==
    /\ pc[r] = "repo_releases" /\ req[r].handler = "read_repo"
    /\ \E out \in StoreFetchRepoReleases(store, Last(calls[r]).arg) \cup {StoreErr} :
         /\ calls' = [calls EXCEPT ![r] = Returned(calls[r], out.tag)]
         /\ IF out.tag = "Err"
            THEN Finish(r, common_into_response("Failed to fetch repo releases from database"))
            ELSE Finish(r, RepoResponse(read_repo_sort(MapSeq(out.rows, FlakeRelease_from_row))))
    /\ UNCHANGED <<world, req, sres, published>>

-----------------------------------------------------------------------------
(* A request handled alone: the handlers from their first line to their
   return, as the set of responses they may give against a store and an
   engine that no other request is using *)

\* api::flake::get_flake
get_flake_alone(i, st, exists) ==
    IF i.q.some
    THEN UNION {
            LET sr == search_flakes(o)
                g == get_flakes_by_ids(keys(sr.hits))
            IN  IF sr.tag = "Err" THEN {common_into_response(sr.err)}
                ELSE IF ~g.query
                THEN {GetFlakeResponse(get_flake_sort(<<>>, sr.hits), i.q)}
                ELSE {IF out.tag = "Err"
                      THEN common_into_response("Failed to fetch flakes by id from database")
                      ELSE GetFlakeResponse(
                                get_flake_sort(MapSeq(out.rows, FlakeReleaseCompact_from_row),
                                               sr.hits),
                                i.q)
                        : out \in StoreFetchByIds(st, g.text) \cup {StoreErr}}
            : o \in SearchOutcomes(exists, search_request(i.q.v).query,
                                   search_request(i.q.v).size)}
    ELSE {IF out.tag = "Err"
          THEN common_into_response("Failed to fetch flakes from database")
          ELSE GetFlakeResponse(MapSeq(out.rows, FlakeReleaseCompact_from_row), i.q)
            : out \in StoreFetchRecent(st) \cup {StoreErr}}

\* get_flake of main.rs
main_get_flake_alone(i, st, exists) ==
    IF i.q.some
    THEN UNION {
            LET sr == search_search_flakes(o)
                g == sql_get_flakes_by_ids(keys(sr.hits))
            IN  IF sr.tag = "Err" THEN {into_response(sr.err)}
                ELSE IF sr.tag = "Panic" THEN {Aborted}
                ELSE IF ~g.query
                THEN {GetFlakeResponse(main_get_flake_sort(<<>>, sr.hits), i.q)}
                ELSE {IF out.tag = "Err"
                      THEN into_response("sqlx::Error")
                      ELSE GetFlakeResponse(
                                main_get_flake_sort(MapSeq(out.rows, sql_FlakeRelease_from_row),
                                                    sr.hits),
                                i.q)
                        : out \in StoreFetchByIds(st, g.text) \cup {StoreErr}}
            : o \in SearchOutcomes(exists, search_search_request(i.q.v).query,
                                   search_search_request(i.q.v).size)}
    ELSE {IF out.tag = "Err"
          THEN into_response("sqlx::Error")
          ELSE GetFlakeResponse(MapSeq(out.rows, sql_FlakeRelease_from_row), i.q)
            : out \in StoreFetchRecent(st) \cup {StoreErr}}

\* api::flake::read_repo
read_repo_alone(i, st) ==
    LET binds == get_repo_id_binds(i.owner, i.repo)
    IN  {common_into_response("Failed to fetch repo id from database")}
        \cup UNION {
            IF repo_id.some
            THEN {IF out.tag = "Err"
                  THEN common_into_response("Failed to fetch repo releases from database")
                  ELSE RepoResponse(read_repo_sort(MapSeq(out.rows, FlakeRelease_from_row)))
                    : out \in StoreFetchRepoReleases(st, repo_id.v) \cup {StoreErr}}
            ELSE {NotFoundResponse}
            : repo_id \in StoreFetchRepoId(st, binds[1], binds[2])}

\* the handler the router gives the request to
handle_alone(i, st, exists) ==
    CASE i.handler = "get_flake" -> get_flake_alone(i, st, exists)
      [] i.handler = "main_get_flake" -> main_get_flake_alone(i, st, exists)
      [] i.handler = "read_repo" -> read_repo_alone(i, st)
      [] i.handler = "post_publish" -> {PublishResponse}
      [] OTHER -> {FallbackResponse}

-----------------------------------------------------------------------------
(* main: create_flake_index at startup *)

requests == <<pc, req, sres, calls, resp, published>>

\* main calls create_flake_index, which sends indices().get(["flakes"])
main_start(p) ==
    /\ mainpc[p] = "start"
    /\ mainpc' = [mainpc EXCEPT ![p] = "get"]
    /\ UNCHANGED <<store, indexExists, indexCreated, mainres, requests>>

\* the engine answers a request for the index with 200 or 404, or fails with
\* 503; or it cannot be reached
IndexGetOutcomes(exists) == {"err", "503", IF exists THEN "200" ELSE "404"}

\* The get returns.  A transport error leaves create_flake_index with ?; on
\* 404 the create request is sent; any other status returns Ok(()).  main
\* drops the result (let _ =) and goes on to serve.
create_flake_index_got(p) ==
    /\ mainpc[p] = "get"
    /\ \E status \in IndexGetOutcomes(indexExists) :
         IF status = "err"
         THEN /\ mainres' = [mainres EXCEPT ![p] =
                                [get |-> status, create |-> "none", result |-> "Err"]]
              /\ mainpc' = [mainpc EXCEPT ![p] = "serving"]
         ELSE IF status = "404"
         THEN /\ mainres' = [mainres EXCEPT ![p] =
                                [get |-> status, create |-> "none", result |-> "none"]]
              /\ mainpc' = [mainpc EXCEPT ![p] = "create"]
         ELSE /\ mainres' = [mainres EXCEPT ![p] =
                                [get |-> status, create |-> "none", result |-> "Ok"]]
              /\ mainpc' = [mainpc EXCEPT ![p] = "serving"]
    /\ UNCHANGED <<store, indexExists, indexCreated, requests>>

\* The create returns.  The engine creates the index if it does not hold it
\* (200) and refuses if it does (400); either status is Ok(()) for
\* create_flake_index.  A transport error is an Err, which main drops.
create_flake_index_created(p) ==
    /\ mainpc[p] = "create"
    /\ \/ /\ mainres' = [mainres EXCEPT ![p] = [@ EXCEPT !.create = "err", !.result = "Err"]]
          /\ UNCHANGED <<indexExists, indexCreated>>
       \/ /\ ~indexExists
          /\ indexExists' = TRUE
          /\ indexCreated' = indexCreated + 1
          /\ mainres' = [mainres EXCEPT ![p] = [@ EXCEPT !.create = "200", !.result = "Ok"]]
       \/ /\ indexExists
          /\ mainres' = [mainres EXCEPT ![p] = [@ EXCEPT !.create = "400", !.result = "Ok"]]
          /\ UNCHANGED <<indexExists, indexCreated>>
    /\ mainpc' = [mainpc EXCEPT ![p] = "serving"]
    /\ UNCHANGED <<store, requests>>

-----------------------------------------------------------------------------
(* Specifications *)

Next ==
    \E r \in Reqs :
        \/ Request(r)
        \/ fallback(r)
        \/ post_publish(r)
        \/ get_flake_begin(r)
        \/ get_flake_searched(r)
        \/ get_flake_hydrated(r)
        \/ get_flake_listed(r)
        \/ main_get_flake_begin(r)
        \/ main_get_flake_searched(r)
        \/ main_get_flake_hydrated(r)
        \/ main_get_flake_listed(r)
        \/ read_repo_begin(r)
        \/ read_repo_resolved(r)
        \/ read_repo_fetched(r)

\* requests against servers that are up
Spec == Init /\ [][Next]_vars

NextStartup ==
    \E p \in Procs :
        \/ main_start(p)
        \/ create_flake_index_got(p)
        \/ create_flake_index_created(p)

\* the startup of the server processes
SpecStartup == InitStartup /\ [][NextStartup]_vars

\* the request slots of the concurrent runs: two requests are in flight
ConcReqs == {1, 2}

\* The servers are up, the store holds the releases of SmallStore and no
\* request has arrived.
InitConcurrent ==
    /\ store = SmallStore
    /\ indexExists \in BOOLEAN
    /\ indexCreated = 0
    /\ mainpc = [p \in Procs |-> "serving"]
    /\ mainres = [p \in Procs |->
                    IF indexExists THEN [get |-> "200", create |-> "none", result |-> "Ok"]
                    ELSE [get |-> "err", create |-> "none", result |-> "Err"]]
    /\ pc = [r \in ConcReqs |-> "idle"]
    /\ req = [r \in ConcReqs |-> NoRequest]
    /\ sres = [r \in ConcReqs |-> NoSearch]
    /\ calls = [r \in ConcReqs |-> <<>>]
    /\ resp = [r \in ConcReqs |-> NoResponse]
    /\ published = {}

NextConcurrent ==
    \E r \in ConcReqs :
        \/ Request(r)
        \/ fallback(r)
        \/ post_publish(r)
        \/ get_flake_begin(r)
        \/ get_flake_searched(r)
        \/ get_flake_hydrated(r)
        \/ get_flake_listed(r)
        \/ main_get_flake_begin(r)
        \/ main_get_flake_searched(r)
        \/ main_get_flake_hydrated(r)
        \/ main_get_flake_listed(r)
        \/ read_repo_begin(r)
        \/ read_repo_resolved(r)
        \/ read_repo_fetched(r)

\* requests handled concurrently, their steps interleaved in every way
SpecConcurrent == InitConcurrent /\ [][NextConcurrent]_vars

-----------------------------------------------------------------------------
(* Properties *)

Done(r) == pc[r] = "done"

\* r is a GET /api/flake request with q given, in either version of get_flake
SearchRequest(r) == req[r].handler \in {"get_flake", "main_get_flake"} /\ req[r].q.some

\* r is a GET /api/flake request with q omitted
ListRequest(r) == req[r].handler \in {"get_flake", "main_get_flake"} /\ ~req[r].q.some

StoreCalls(cs) == {i \in 1..Len(cs) : cs[i].io = "postgres"}
SearchCalls(cs) == {i \in 1..Len(cs) : cs[i].io = "opensearch"}

Ids(releases) == {releases[i].id : i \in 1..Len(releases)}

ScoreDescending(releases, h) ==
    \A i, j \in 1..Len(releases) : i < j => h[releases[i].id] >= h[releases[j].id]

\* C1: the releases of a search response are in descending order of the scores
\* of the search step's hit mapping (equal scores in either order).
C1_SortedByScore ==
    \A r \in Reqs :
        (Done(r) /\ SearchRequest(r) /\ resp[r].kind = "GetFlakeResponse"
            /\ sres[r].hits # EmptyMap)
        => ScoreDescending(resp[r].releases, sres[r].hits)

\* the same, for the get_flake of main.rs alone, which sorts by the scores
C1_MainSortedByScore ==
    \A r \in Reqs :
        (Done(r) /\ SearchRequest(r) /\ req[r].handler = "main_get_flake"
            /\ resp[r].kind = "GetFlakeResponse" /\ sres[r].hits # EmptyMap)
        => ScoreDescending(resp[r].releases, sres[r].hits)

\* C2: when the search step returns no hits, the response is 200 with count 0
\* and no releases; get_flakes_by_ids was called with the empty identifier
\* list and returned Ok without a round trip to the store, and the request
\* made no round trip to the store at all.
C2_ZeroHits ==
    \A r \in Reqs :
        (Done(r) /\ SearchRequest(r) /\ sres[r].tag = "Ok" /\ sres[r].hits = EmptyMap)
        => /\ resp[r].kind = "GetFlakeResponse"
           /\ resp[r].status = 200
           /\ resp[r].count = 0
           /\ resp[r].releases = <<>>
           /\ \E i \in 1..Len(calls[r]) :
                /\ calls[r][i].op = "get_flakes_by_ids"
                /\ calls[r][i].arg.ids = <<>>
                /\ calls[r][i].io = "none"
                /\ calls[r][i].ret = "Ok"
           /\ StoreCalls(calls[r]) = {}

\* a search request whose search found nothing has been answered
C2_Witness ==
    \E r \in Reqs :
        /\ Done(r) /\ SearchRequest(r)
        /\ sres[r].tag = "Ok" /\ sres[r].hits = EmptyMap
        /\ sres[r].raw.tag = "Json" /\ sres[r].raw.res.hasHits
        /\ resp[r].count = 0

\* a hit without a string _id, with an _id that is no i32, or without a
\* numeric _score
MalformedHit(h) ==
    \/ h._id.t # "str"
    \/ ~parse_i32(h._id.s).some
    \/ h._score.t # "num"

\* a JSON body without the hit array, or with a malformed hit
MalformedBody(o) ==
    /\ o.tag = "Json"
    /\ \/ ~o.res.hasHits
       \/ \E i \in 1..Len(o.res.hits) : MalformedHit(o.res.hits[i])

\* C3: a search response without the hit array, or with a malformed hit, ends
\* the request with an error response of status 500 and a message, with no
\* hit mapping and no hydration; it never ends without a response.
C3_MalformedIsError ==
    \A r \in Reqs :
        (Done(r) /\ SearchRequest(r) /\ MalformedBody(sres[r].raw))
        => /\ resp[r].kind = "AppError"
           /\ resp[r].status = 500
           /\ resp[r].body # ""
           /\ sres[r].hits = EmptyMap
           /\ StoreCalls(calls[r]) = {}

\* the same, for api::flake::get_flake alone, whose search_flakes returns
\* every malformed body as an Err
C3_ApiMalformedIsError ==
    \A r \in Reqs :
        (Done(r) /\ SearchRequest(r) /\ req[r].handler = "get_flake"
            /\ MalformedBody(sres[r].raw))
        => /\ resp[r].kind = "AppError"
           /\ resp[r].status = 500
           /\ resp[r].body # ""
           /\ sres[r].hits = EmptyMap
           /\ StoreCalls(calls[r]) = {}

\* the part of C4 that holds: within a search request there is at most one
\* search call and at most one call to the store; the store is called only
\* after the search call has returned Ok; a search call that returned an error
\* ends the request with status 500 and without a call to the store; a store
\* call that returned an error ends the request with status 500 and is the
\* last call.  In api::flake::get_flake the search call returns Ok or an error
\* and nothing else.
C4_Sequential ==
    \A r \in Reqs :
        SearchRequest(r) =>
            /\ Cardinality(SearchCalls(calls[r])) <= 1
            /\ Cardinality(StoreCalls(calls[r])) <= 1
            /\ \A i \in StoreCalls(calls[r]) :
                    \E j \in SearchCalls(calls[r]) : j < i /\ calls[r][j].ret = "Ok"
            /\ \A j \in SearchCalls(calls[r]) :
                    /\ calls[r][j].ret = "Err" =>
                            /\ Done(r)
                            /\ resp[r].status = 500
                            /\ StoreCalls(calls[r]) = {}
                    /\ req[r].handler = "get_flake" =>
                            calls[r][j].ret \in {"pending", "Ok", "Err"}
            /\ \A i \in StoreCalls(calls[r]) :
                    calls[r][i].ret = "Err" =>
                            /\ Done(r)
                            /\ resp[r].status = 500
                            /\ i = Len(calls[r])

\* a search request whose search succeeded and whose hydration failed
C4_Witness ==
    \E r \in Reqs :
        /\ Done(r) /\ SearchRequest(r)
        /\ Len(calls[r]) = 2
        /\ calls[r][1].io = "opensearch" /\ calls[r][1].ret = "Ok"
        /\ calls[r][2].io = "postgres" /\ calls[r][2].ret = "Err"
        /\ resp[r].status = 500

\* C4: within a search request there is at most one search call and at most
\* one call to the store, the store is called only after the search call has
\* returned Ok, and a search call or a store call that has ended otherwise
\* ends the request with status 500, with no call after it.
C4_FailureIs500 ==
    \A r \in Reqs :
        SearchRequest(r) =>
            /\ Cardinality(SearchCalls(calls[r])) <= 1
            /\ Cardinality(StoreCalls(calls[r])) <= 1
            /\ \A i \in StoreCalls(calls[r]) :
                    \E j \in SearchCalls(calls[r]) : j < i /\ calls[r][j].ret = "Ok"
            /\ \A i \in 1..Len(calls[r]) :
                    calls[r][i].ret \notin {"pending", "Ok"} =>
                        /\ Done(r)
                        /\ resp[r].status = 500
                        /\ i = Len(calls[r])

ReadRepoRequest(r) == req[r].handler = "read_repo"

\* the store holds a repository of that name under an owner of that name
Resolves(st, owner, repo) ==
    \E p \in st.repos : \E o \in st.owners :
        p.name = repo /\ o.id = p.owner_id /\ o.name = owner

\* get_repo_id has returned Ok to request r
Looked(r) == Done(r) /\ ReadRepoRequest(r) /\ calls[r][1].ret = "Ok"

\* C5 as stated: an unknown pair is answered 404 {"detail":"Not Found"}
\* without a release listing, and a pair that resolves is answered 200.
C5_ResolvedIs200 ==
    \A r \in Reqs :
        /\ (Looked(r) /\ ~Resolves(store, req[r].owner, req[r].repo))
            => /\ resp[r] = NotFoundResponse
               /\ Len(calls[r]) = 1
        /\ (Looked(r) /\ Resolves(store, req[r].owner, req[r].repo))
            => resp[r].status = 200

\* C5, amended: an unknown pair is answered 404 {"detail":"Not Found"}, not
\* 500, without a release listing; for a pair that resolves the releases are
\* listed, and the answer is 200 if that listing succeeds and 500 if it fails.
C5_NotFoundIs404 ==
    \A r \in Reqs :
        /\ (Looked(r) /\ ~Resolves(store, req[r].owner, req[r].repo))
            => /\ resp[r] = NotFoundResponse
               /\ resp[r].status = 404
               /\ resp[r].body = "{\"detail\":\"Not Found\"}"
               /\ Len(calls[r]) = 1
        /\ (Looked(r) /\ Resolves(store, req[r].owner, req[r].repo))
            => /\ Len(calls[r]) = 2
               /\ calls[r][2].op = "get_repo_releases"
               /\ calls[r][2].ret = "Ok" =>
                    (resp[r].kind = "RepoResponse" /\ resp[r].status = 200)
               /\ calls[r][2].ret = "Err" =>
                    (resp[r].kind = "AppError" /\ resp[r].status = 500)

\* an unknown pair has been answered 404 in a store that holds repositories
C5_Witness ==
    \E r \in Reqs :
        /\ Looked(r)
        /\ store.repos # {}
        /\ ~Resolves(store, req[r].owner, req[r].repo)
        /\ resp[r].status = 404

\* the releases the store holds for the repository owner/repo
StoredFor(st, owner, repo) ==
    {x \in st.releases :
        \E p \in st.repos : \E o \in st.owners :
            /\ p.id = x.repo_id /\ p.name = repo
            /\ o.id = p.owner_id /\ o.name = owner}

V_2_0_0 == <<"2", ".", "0", ".", "0">>
V_10_0_0 == <<"1", "0", ".", "0", ".", "0">>

\* C6: a 200 response of read_repo holds exactly the releases stored for the
\* repository, each once and with its stored columns, in descending order of
\* the version strings compared byte by byte: "2.0.0" comes before "10.0.0".
C6_VersionDescending ==
    \A r \in Reqs :
        (Done(r) /\ ReadRepoRequest(r) /\ resp[r].kind = "RepoResponse") =>
            LET rel == resp[r].releases
                stored == StoredFor(store, req[r].owner, req[r].repo)
            IN  /\ Ids(rel) = {x.id : x \in stored}
                /\ Len(rel) = Cardinality(stored)
                /\ \A i \in 1..Len(rel) : \E x \in stored :
                        /\ x.id = rel[i].id /\ x.version = rel[i].version
                        /\ x.commit = rel[i].commit /\ x.readme = rel[i].readme
                        /\ x.created_at = rel[i].created_at
                        /\ rel[i].owner = req[r].owner /\ rel[i].repo = req[r].repo
                /\ \A i, j \in 1..Len(rel) :
                        i < j => str_cmp(rel[i].version, rel[j].version) >= 0
                /\ \A i, j \in 1..Len(rel) :
                        (rel[i].version = V_2_0_0 /\ rel[j].version = V_10_0_0) => i < j

\* a repository with the versions 2.0.0 and 10.0.0 has been listed
C6_Witness ==
    \E r \in Reqs :
        /\ Done(r) /\ ReadRepoRequest(r) /\ resp[r].kind = "RepoResponse"
        /\ \E i, j \in 1..Len(resp[r].releases) :
                /\ resp[r].releases[i].version = V_2_0_0
                /\ resp[r].releases[j].version = V_10_0_0

\* C7: a GET /api/flake request without q whose store call succeeds makes no
\* search call and one store call, and is answered 200 with the newest
\* releases of the store, newest first, never more than 100 of them, with
\* count their number and no query.
C7_RecentListing ==
    \A r \in Reqs :
        (Done(r) /\ ListRequest(r) /\ calls[r][1].ret = "Ok") =>
            LET rel == resp[r].releases
            IN  /\ SearchCalls(calls[r]) = {}
                /\ Len(calls[r]) = 1
                /\ calls[r][1].op = "get_flakes"
                /\ resp[r].kind = "GetFlakeResponse"
                /\ resp[r].status = 200
                /\ Len(rel) <= 100
                /\ Len(rel) = Min(Cardinality(store.releases), 100)
                /\ resp[r].count = Len(rel)
                /\ resp[r].query = NoQuery
                /\ \A i, j \in 1..Len(rel) : i < j => rel[i].created_at >= rel[j].created_at
                /\ Cardinality(Ids(rel)) = Len(rel)
                /\ \A i \in 1..Len(rel) : \E x \in store.releases :
                        x.id = rel[i].id /\ x.created_at = rel[i].created_at
                /\ \A x \in store.releases :
                        x.id \notin Ids(rel) =>
                            \A i \in 1..Len(rel) : rel[i].created_at >= x.created_at

\* a store with more than 100 releases has been listed while the search
\* engine holds no index
C7_Witness ==
    \E r \in Reqs :
        /\ Done(r) /\ ListRequest(r) /\ calls[r][1].ret = "Ok"
        /\ ~indexExists
        /\ Cardinality(store.releases) > 100
        /\ Len(resp[r].releases) = 100

PublishedWidget == [owner |-> "acme", repo |-> "widget", version |-> <<"1", ".", "2", ".", "0">>]

\* C8: once the release acme/widget 1.2.0 has been published through POST
\* /api/publish, a later GET /api/flake/acme/widget whose store calls succeed
\* is answered 200 with exactly that release, in its extended shape.
C8_PublishRoundTrip ==
    \A r \in Reqs :
        (/\ Done(r)
         /\ req[r].method = "GET" /\ req[r].route = "/api/flake/:owner/:repo"
         /\ req[r].owner = "acme" /\ req[r].repo = "widget"
         /\ PublishedWidget \in req[r].seen
         /\ \A i \in 1..Len(calls[r]) : calls[r][i].ret # "Err")
        => /\ resp[r].status = 200
           /\ Len(resp[r].releases) = 1
           /\ LET body == FlakeRelease_serialize(resp[r].releases[1])
              IN  /\ body.owner = "acme"
                  /\ body.repo = "widget"
                  /\ body.version = PublishedWidget.version
                  /\ DOMAIN body = {"owner", "repo", "version", "description",
                                    "created_at", "commit", "readme"}

\* C9: a search request whose search and store calls succeed is answered 200;
\* its releases are exactly the hits the store holds, each once, at most 10,
\* with count their number; every release returned is a key of the hit map.
C9_MissingDropped ==
    \A r \in Reqs :
        (/\ Done(r) /\ SearchRequest(r)
         /\ sres[r].tag = "Ok"
         /\ \A i \in 1..Len(calls[r]) : calls[r][i].ret # "Err")
        => LET rel == resp[r].releases
               h == sres[r].hits
           IN  /\ resp[r].kind = "GetFlakeResponse"
               /\ resp[r].status = 200
               /\ Ids(rel) = (DOMAIN h) \cap {x.id : x \in store.releases}
               /\ Len(rel) = Cardinality(Ids(rel))
               /\ Cardinality(DOMAIN h) <= 10
               /\ Len(rel) <= 10
               /\ resp[r].count = Len(rel)
               /\ Ids(rel) \subseteq DOMAIN h

\* a search with a hit the store does not hold has been answered with the
\* releases of the other hits
C9_Witness ==
    \E r \in Reqs :
        /\ Done(r) /\ SearchRequest(r) /\ sres[r].tag = "Ok"
        /\ resp[r].kind = "GetFlakeResponse"
        /\ resp[r].releases # <<>>
        /\ \E id \in DOMAIN sres[r].hits : id \notin {x.id : x \in store.releases}

\* C10: once a process serves, the "flakes" index exists; and the index is
\* created at most once, never when it existed before the startup.
C10_IndexEnsured ==
    /\ \A p \in Procs : mainpc[p] = "serving" => indexExists
    /\ indexCreated <= 1

\* the part of C10 that holds: the index is created at most once, and a
\* process whose two requests were answered 404 and 200, or 200, leaves the
\* index in existence
C10_CreateIfAbsent ==
    /\ indexCreated <= 1
    /\ indexCreated = 1 => indexExists
    /\ \A p \in Procs :
         (mainpc[p] = "serving" /\ (mainres[p].get = "200" \/ mainres[p].create \in {"200", "400"}))
            => indexExists

\* the responses of single requests are those of the handler run from its
\* first line to its return
HandledAlone ==
    \A r \in Reqs : Done(r) => resp[r] \in handle_alone(req[r], store, indexExists)

\* C11: however the steps of the requests in flight are interleaved, and
\* whatever the other requests are and however they end, the response of a
\* request (status, releases, count, query) is one that the same request
\* gives when it is handled alone against the same store and index; the hit
\* map and the calls of a request that has not ended are those of its own
\* query.
C11_Independent ==
    \A r \in DOMAIN pc :
        /\ Done(r) => resp[r] \in handle_alone(req[r], store, indexExists)
        /\ \A k \in 1..Len(calls[r]) :
                /\ calls[r][k].op = "search_flakes" => calls[r][k].arg.query = req[r].q.v
                /\ calls[r][k].op = "get_flakes_by_ids" =>
                        calls[r][k].arg.ids = keys(sres[r].hits)
                /\ calls[r][k].op = "get_repo_id" =>
                        calls[r][k].arg = get_repo_id_binds(req[r].owner, req[r].repo)

\* two search requests with different queries were in flight together, one
\* has failed and the other has been answered with releases
C11_Witness ==
    \E r, r2 \in DOMAIN pc :
        /\ r # r2
        /\ Done(r) /\ Done(r2)
        /\ SearchRequest(r) /\ SearchRequest(r2)
        /\ req[r].q # req[r2].q
        /\ resp[r].kind = "GetFlakeResponse" /\ resp[r].releases # <<>>
        /\ resp[r2].status # 200
        /\ Len(calls[r]) = 2 /\ calls[r][2].io = "postgres"

====
